---------------------------- MODULE Spec2Model ----------------------------
(***************************************************************************)
(* Model of mesh2inp.py: a mesh file is read into four tables (points,     *)
(* surface elements, materials, edge boundaries) and two decks are         *)
(* written from them (nodes and node sets, elements and element sets).     *)
(*                                                                         *)
(* Text is modelled at token level.  A line is a sequence of tokens; a     *)
(* token is an integer literal, a non-integer float literal (its value in  *)
(* eighths, which binary floating point holds exactly), a plain word, a    *)
(* word that begins with '#', or a run of whitespace.                      *)
(***************************************************************************)
EXTENDS Integers, Sequences, FiniteSets, TLC

VARIABLES
    argv,       \* command line arguments of main
    gen,        \* how the mesh file on disk was put together (sections, order, edit)
    mesh,       \* content of the mesh file when main starts: a sequence of raw lines
    pc,         \* position of main
    exc,        \* exception propagating out of main ("" when none)
    open,       \* names of the files currently open
    fileops,    \* history of open/close operations on files
    lines,      \* read_mesh: local variable lines
    tables,     \* result of read_mesh: points, elements, materials, edgeboundaries
    disk,       \* content of every file, by name
    logs,       \* records handed to the logging module
    cin,        \* chunks: the arguments (sequence, count)
    cout        \* chunks: the groups yielded, and whether it raised

vars == <<argv, gen, mesh, pc, exc, open, fileops, lines, tables, disk,
          logs, cin, cout>>

-----------------------------------------------------------------------------
(* Bounds of the explored inputs *)

MaxPoints == 3
MaxElems == 2
MaxMats == 2
MaxEdges == 3
MaxChunkLen == 35

-----------------------------------------------------------------------------
(* Tokens and lines *)

I(n) == [k |-> "int", v |-> n, s |-> ""]
F(n) == [k |-> "flt", v |-> n, s |-> ""]
S(t) == [k |-> "str", v |-> 0, s |-> t]
Hash(t) == [k |-> "cmt", v |-> 0, s |-> t]
WS == [k |-> "ws", v |-> 0, s |-> " "]

Min(a, b) == IF a < b THEN a ELSE b
Max(a, b) == IF a < b THEN b ELSE a

\* seq[i] of Python: 0-based
At(seq, i) == seq[i + 1]

\* seq[a:b] of Python, negative indices counted from the end
PySlice(seq, a, b) ==
    LET n == Len(seq)
        lo == IF a < 0 THEN Max(a + n, 0) ELSE Min(a, n)
        hi == IF b < 0 THEN Max(b + n, 0) ELSE Min(b, n)
    IN  SubSeq(seq, lo + 1, hi)

\* str.strip(): leading and trailing whitespace removed
strip(ln) ==
    LET nz == {i \in 1..Len(ln) : ln[i].k # "ws"}
    IN  IF nz = {} THEN <<>>
        ELSE SubSeq(ln, CHOOSE i \in nz : \A j \in nz : i <= j,
                        CHOOSE i \in nz : \A j \in nz : j <= i)

\* str.split(): the whitespace-separated tokens
split(ln) == SelectSeq(ln, LAMBDA t : t.k # "ws")

\* str.startswith('#')
startswithHash(ln) == Len(ln) > 0 /\ ln[1].k = "cmt"

\* whether int(x) succeeds on a trimmed line or a token sequence of one token
IntOk(ln) == Len(ln) = 1 /\ ln[1].k = "int"
\* whether float(t) succeeds on one token
FloatOk(t) == t.k \in {"int", "flt"}
\* float(t) in eighths
FloatOf(t) == IF t.k = "int" THEN 8 * t.v ELSE t.v

\* a variant of Index that returns the last line equal to x
Index_Last(ls, x) ==
    LET hits == {i \in 1..Len(ls) : ls[i] = x}
    IN  IF hits = {} THEN -1
        ELSE (CHOOSE i \in hits : \A j \in hits : j <= i) - 1

\* list.index(x): 0-based position of the first line equal to x, -1 for ValueError
Index(ls, x) ==
    LET hits == {i \in 1..Len(ls) : ls[i] = x}
    IN  IF hits = {} THEN -1
        ELSE (CHOOSE i \in hits : \A j \in hits : i <= j) - 1

\* the first error of a list comprehension or loop, "" when every item passes
FirstErr(errs) ==
    LET bad == {i \in 1..Len(errs) : errs[i] # ""}
    IN  IF bad = {} THEN ""
        ELSE errs[CHOOSE i \in bad : \A j \in bad : i <= j]

\* line 23 of read_mesh: every line of the file, trimmed
Stripped(file) == [i \in 1..Len(file) |-> strip(file[i])]

\* a variant of NoComments that removes nothing
NoComments_Keep(ls) == ls

\* line 25 of read_mesh: the lines that do not start with '#'
NoComments(ls) == SelectSeq(ls, LAMBDA ln : ~startswithHash(ln))


-----------------------------------------------------------------------------
(* read_mesh *)

ThresholdTag == 100

NoTables == [points |-> <<>>, elements |-> <<>>, materials |-> <<>>,
             edgeboundaries |-> <<>>]

\* a variant of Section that reads a count line that is no integer as 0
Section_LenientCount(ls, kw) ==
    LET idx == Index(ls, <<S(kw)>>)
    IN  IF idx = -1 THEN [err |-> "ValueError", rows |-> <<>>]
        ELSE IF idx + 1 >= Len(ls) THEN [err |-> "IndexError", rows |-> <<>>]
        ELSE LET num == IF IntOk(At(ls, idx + 1)) THEN At(ls, idx + 1)[1].v ELSE 0
             IN  [err |-> "", rows |-> PySlice(ls, idx + 2, idx + 2 + num)]

\* A section: ls.index(kw) + 2, the count on the line before it, and the
\* slice of that many lines
Section(ls, kw) ==
    LET idx == Index(ls, <<S(kw)>>)
    IN  IF idx = -1 THEN [err |-> "ValueError", rows |-> <<>>]
        ELSE IF idx + 1 >= Len(ls) THEN [err |-> "IndexError", rows |-> <<>>]
        ELSE IF ~IntOk(At(ls, idx + 1)) THEN [err |-> "ValueError", rows |-> <<>>]
        ELSE LET num == At(ls, idx + 1)[1].v
             IN  [err |-> "", rows |-> PySlice(ls, idx + 2, idx + 2 + num)]

\* tuple(float(j) for j in ln.split())
PointErr(ln) == IF \A i \in 1..Len(split(ln)) : FloatOk(split(ln)[i])
                THEN "" ELSE "ValueError"
PointOf(ln) == [i \in 1..Len(split(ln)) |-> FloatOf(split(ln)[i])]

\* tuple(int(j) for j in ln.split())
ElementErr(ln) == IF \A i \in 1..Len(split(ln)) : split(ln)[i].k = "int"
                  THEN "" ELSE "ValueError"
ElementOf(ln) == [i \in 1..Len(split(ln)) |-> split(ln)[i].v]

\* (int(m[0]), m[1]) with m = ln.split()
MaterialErr(ln) ==
    LET m == split(ln)
    IN  IF Len(m) = 0 THEN "IndexError"
        ELSE IF m[1].k # "int" THEN "ValueError"
        ELSE IF Len(m) < 2 THEN "IndexError"
        ELSE ""
MaterialOf(ln) == [id |-> split(ln)[1].v, name |-> split(ln)[2]]

\* a variant of EdgeKept that also keeps the threshold tag itself
EdgeKept_Inclusive(ln) == split(ln)[1].v >= ThresholdTag

\* line 48: whether the loop adds the nodes of this edge
EdgeKept(ln) == split(ln)[1].v > ThresholdTag

\* one pass of the loop over edges: key = int(e[0]); the two adds when key > 100
EdgeErr(ln) ==
    LET e == split(ln)
    IN  IF Len(e) = 0 THEN "IndexError"
        ELSE IF e[1].k # "int" THEN "ValueError"
        ELSE IF ~EdgeKept(ln) THEN ""
        ELSE IF Len(e) < 3 THEN "IndexError"
        ELSE IF e[3].k # "int" THEN "ValueError"
        ELSE IF Len(e) < 4 THEN "IndexError"
        ELSE IF e[4].k # "int" THEN "ValueError"
        ELSE ""

\* the defaultdict(set) filled by the loop: keys in insertion order, each with
\* the nodes added under it
EdgeBoundaries(rows) ==
    LET key(i) == split(rows[i])[1].v
        idxs == [i \in 1..Len(rows) |-> i]
        firsts == SelectSeq(idxs, LAMBDA i :
                      /\ EdgeKept(rows[i])
                      /\ \A j \in 1..(i - 1) : key(j) # key(i))
    IN  [n \in 1..Len(firsts) |->
            [key |-> key(firsts[n]),
             nodes |-> UNION {{split(rows[i])[3].v, split(rows[i])[4].v} :
                              i \in {j \in 1..Len(rows) : key(j) = key(firsts[n])}}]]

\* read_mesh from line 26 on: the four tables, or the exception raised first
read_mesh(ls) ==
    LET ps == Section(ls, "points")
        perr == IF ps.err # "" THEN ps.err
                ELSE FirstErr([i \in 1..Len(ps.rows) |-> PointErr(ps.rows[i])])
        es == Section(ls, "surfaceelements")
        eerr == IF es.err # "" THEN es.err
                ELSE FirstErr([i \in 1..Len(es.rows) |-> ElementErr(es.rows[i])])
        ms == Section(ls, "materials")
        merr == IF ms.err # "" THEN ms.err
                ELSE FirstErr([i \in 1..Len(ms.rows) |-> MaterialErr(ms.rows[i])])
        gs == Section(ls, "edgesegmentsgi2")
        gerr == IF gs.err # "" THEN gs.err
                ELSE FirstErr([i \in 1..Len(gs.rows) |-> EdgeErr(gs.rows[i])])
        err == IF perr # "" THEN perr
               ELSE IF eerr # "" THEN eerr
               ELSE IF merr # "" THEN merr
               ELSE gerr
    IN  IF err # "" THEN [err |-> err, t |-> NoTables]
        ELSE [err |-> "",
              t |-> [points |-> [i \in 1..Len(ps.rows) |-> PointOf(ps.rows[i])],
                     elements |-> [i \in 1..Len(es.rows) |-> ElementOf(es.rows[i])],
                     materials |-> [i \in 1..Len(ms.rows) |-> MaterialOf(ms.rows[i])],
                     edgeboundaries |-> EdgeBoundaries(gs.rows)]]

-----------------------------------------------------------------------------
(* chunks *)

ChunkWidth == 16

\* a variant of Range that stops one short
Range_Short(stop, step) ==
    LET starts == {i \in 0..(stop - 2) : i % step = 0}
    IN  [j \in 1..Cardinality(starts) |-> (j - 1) * step]

\* range(0, stop, step) for step >= 1
Range(stop, step) ==
    LET starts == {i \in 0..(stop - 1) : i % step = 0}
    IN  [j \in 1..Cardinality(starts) |-> (j - 1) * step]

\* chunks(sequence, count), run to exhaustion: the groups yielded, or ValueError
chunks(sequence, count) ==
    IF count < 1 THEN [err |-> "ValueError", groups |-> <<>>]
    ELSE LET r == Range(Len(sequence), count)
         IN  [err |-> "",
              groups |-> [j \in 1..Len(r) |-> PySlice(sequence, r[j], r[j] + count)]]

-----------------------------------------------------------------------------
(* The two writers.  A written line is a sequence of tokens. *)

\* a number printed with two decimals, in hundredths
D(h) == [k |-> "dec", v |-> h, s |-> ""]

\* f'{x:.2f}' of a float given in eighths: hundredths, ties to even
Format2(e) ==
    LET a == IF e < 0 THEN -e ELSE e
        q == (25 * a) \div 2
        h == IF (25 * a) % 2 = 0 THEN q
             ELSE IF q % 2 = 0 THEN q ELSE q + 1
    IN  IF e < 0 THEN -h ELSE h

\* sorted(list(s)) of a set of integers
Sorted(s) ==
    [j \in 1..Cardinality(s) |->
        CHOOSE x \in s : Cardinality({y \in s : y < x}) = j - 1]

RECURSIVE Flatten(_)
Flatten(ss) == IF ss = <<>> THEN <<>> ELSE Head(ss) \o Flatten(Tail(ss))

\* the items of a sequence before the first one that is in the set bad
Before(n, bad) ==
    IF bad = {} THEN n ELSE (CHOOSE i \in bad : \A j \in bad : i <= j) - 1

Ints(seq) == [i \in 1..Len(seq) |-> I(seq[i])]

\* what a writer does, in order: a line written to the deck, a record logged
Wr(ln) == [t |-> "w", ln |-> ln]
Lg(ln) == [t |-> "l", ln |-> ln]
WrAll(lns) == [i \in 1..Len(lns) |-> Wr(lns[i])]

\* the lines written, and the records logged, by a sequence of events
Written(ev) ==
    LET w == SelectSeq(ev, LAMBDA x : x.t = "w")
    IN  [i \in 1..Len(w) |-> w[i].ln]
Logged(ev) ==
    LET l == SelectSeq(ev, LAMBDA x : x.t = "l")
    IN  [i \in 1..Len(l) |-> l[i].ln]

\* the events that precede write number k + 1: what has happened when that
\* write raises
BeforeWrite(ev, k) ==
    LET at == SelectSeq([j \in 1..Len(ev) |-> j], LAMBDA j : ev[j].t = "w")
    IN  IF k < Len(at) THEN SubSeq(ev, 1, at[k + 1] - 1) ELSE ev

\* the four comment lines that open a deck
Header(name) ==
    << <<S("**")>>,
       <<S("** ")>> \o [i \in 1..Len(name) |-> S(name[i])],
       <<S("** Gegenereerd door mesh2inp.py.")>>,
       <<S("**")>> >>

\* lines 64-65: the name of the node deck
NodeDeckName(name) ==
    IF Len(name) > 0 /\ name[Len(name)] = ".inp" THEN name ELSE Append(name, ".inp")

\* a variant of NodeRecord that numbers from 0
NodeRecord_FromZero(n, p) ==
    <<I(n - 1), D(Format2(p[1])), D(Format2(p[2])), D(Format2(p[3]))>>

\* line 73: one coordinate record
NodeRecord(n, p) == <<I(n), D(Format2(p[1])), D(Format2(p[2])), D(Format2(p[3]))>>

\* a variant of MaterialNodes that takes every field after the node count
MaterialNodes_AllTrailing(elements, matnum) ==
    UNION {LET e == elements[i]
               sub == PySlice(e, 5, Len(e))
           IN  {sub[j] : j \in 1..Len(sub)} :
           i \in {k \in 1..Len(elements) : elements[k][2] = matnum}}

\* lines 76-78: the node set of material number matnum
MaterialNodes(elements, matnum) ==
    UNION {LET e == elements[i]
               sub == PySlice(e, 5, 5 + e[5])
           IN  {sub[j] : j \in 1..Len(sub)} :
           i \in {k \in 1..Len(elements) : elements[k][2] = matnum}}

\* lines 80-81 and 86-87: the lines of a node set
NsetLines(ids) ==
    LET g == chunks(ids, ChunkWidth).groups
    IN  [j \in 1..Len(g) |-> <<WS>> \o Ints(g[j])]

\* lines 74-82 for one material: whether it raises, else its lines and log record
NodeBlock(elements, m) ==
    IF \/ \E i \in 1..Len(elements) : Len(elements[i]) < 2
       \/ \E i \in 1..Len(elements) : elements[i][2] = m.id /\ Len(elements[i]) < 5
    THEN [err |-> "IndexError", ev |-> <<>>]
    ELSE LET nset == MaterialNodes(elements, m.id)
         IN  [err |-> "",
              ev |-> WrAll(<< <<S("*NSET,NSET=N"), m.name>> >> \o NsetLines(Sorted(nset)))
                     \o << Lg(<<S("INFO: wrote"), I(Cardinality(nset)),
                                S("nodes to set N"), m.name>>) >>]

\* lines 83-88 for one edge boundary
EdgeBlock(b) ==
    WrAll(<< <<S("*NSET,NSET=Nedge"), I(b.key)>> >> \o NsetLines(Sorted(b.nodes)))
    \o << Lg(<<S("INFO: wrote"), I(Cardinality(b.nodes)),
               S("nodes to set Nedge"), I(b.key)>>) >>

\* write_nodes, lines 67-88, on a device that takes every write: the writes and
\* log records in order, until it returns or raises
NodeEvents(name, points, elements, materials, edge_boundaries) ==
    LET head == WrAll(Header(name) \o << <<S("*NODE,NSET=Nall")>> >>)
        np == Before(Len(points), {i \in 1..Len(points) : Len(points[i]) # 3})
        nodes == [i \in 1..np |-> Wr(NodeRecord(i, points[i]))]
        mb == [i \in 1..Len(materials) |-> NodeBlock(elements, materials[i])]
        nm == Before(Len(materials), {i \in 1..Len(materials) : mb[i].err # ""})
        eb == [i \in 1..Len(edge_boundaries) |-> EdgeBlock(edge_boundaries[i])]
    IN  IF np < Len(points)
        THEN [err |-> "ValueError", ev |-> head \o nodes]
        ELSE IF nm < Len(materials)
        THEN [err |-> "IndexError",
              ev |-> head \o nodes \o Flatten([i \in 1..nm |-> mb[i].ev])]
        ELSE [err |-> "",
              ev |-> head \o nodes \o Flatten([i \in 1..nm |-> mb[i].ev])
                     \o Flatten([i \in 1..Len(eb) |-> eb[i]])]

\* write_nodes, lines 67-88: what is written and logged before it returns or raises
write_nodes(name, points, elements, materials, edge_boundaries) ==
    LET r == NodeEvents(name, points, elements, materials, edge_boundaries)
    IN  [err |-> r.err, ev |-> r.ev, out |-> Written(r.ev), log |-> Logged(r.ev)]

\* a variant of ElementRecord that keeps the nodes in source order
ElementRecord_SourceOrder(n, e) ==
    IF Len(e) < 5 THEN [err |-> "IndexError", out |-> <<>>]
    ELSE LET cnt == e[5]
             nodes == PySlice(e, 5, 5 + cnt)
         IN  IF cnt # 6 THEN [err |-> "", out |-> <<>>]
             ELSE IF Len(nodes) < 6 THEN [err |-> "IndexError", out |-> <<>>]
             ELSE [err |-> "",
                   out |-> << Ints(<<n, nodes[1], nodes[2], nodes[3],
                                     nodes[4], nodes[5], nodes[6]>>) >>]

\* lines 102-108 for element number n: whether it raises, else the lines written
ElementRecord(n, e) ==
    IF Len(e) < 5 THEN [err |-> "IndexError", out |-> <<>>]
    ELSE LET cnt == e[5]
             nodes == PySlice(e, 5, 5 + cnt)
         IN  IF cnt # 6 THEN [err |-> "", out |-> <<>>]
             ELSE IF Len(nodes) < 6 THEN [err |-> "IndexError", out |-> <<>>]
             ELSE [err |-> "",
                   out |-> << Ints(<<n, nodes[1], nodes[2], nodes[3],
                                     nodes[6], nodes[4], nodes[5]>>) >>]

\* a variant of ElementNumbers that leaves out the elements the block skips
ElementNumbers_SixOnly(elements, matnum) ==
    SelectSeq([i \in 1..Len(elements) |-> i],
              LAMBDA n : elements[n][2] = matnum /\ elements[n][5] = 6)

\* line 112: the numbers of the elements of material number matnum
ElementNumbers(elements, matnum) ==
    SelectSeq([i \in 1..Len(elements) |-> i], LAMBDA n : elements[n][2] = matnum)

\* lines 109-116 for one material
ElsetBlock(elements, m) ==
    LET elnums == ElementNumbers(elements, m.id)
        g == chunks(elnums, ChunkWidth).groups
    IN  WrAll(<< <<S("*ELSET,ELSET=E"), m.name>> >>
              \o [j \in 1..Len(g) |-> Ints(g[j]) \o <<S(",")>>])
        \o << Lg(<<S("INFO: wrote"), I(Len(elnums)),
                   S("elements to set E"), m.name>>) >>

\* write_elements, lines 96-116, on a device that takes every write: the writes
\* and log records in order, until it returns or raises
ElementEvents(name, elements, materials) ==
    LET head == WrAll(Header(name) \o << <<S("*ELEMENT, TYPE=S6, ELSET=Eall")>> >>)
        er == [i \in 1..Len(elements) |-> ElementRecord(i, elements[i])]
        ne == Before(Len(elements), {i \in 1..Len(elements) : er[i].err # ""})
        body == WrAll(Flatten([i \in 1..ne |-> er[i].out]))
        sb == [i \in 1..Len(materials) |-> ElsetBlock(elements, materials[i])]
    IN  IF ne < Len(elements)
        THEN [err |-> "IndexError", ev |-> head \o body]
        ELSE [err |-> "", ev |-> head \o body \o Flatten([i \in 1..Len(sb) |-> sb[i]])]

\* write_elements, lines 96-116: what is written and logged before it returns or raises
write_elements(name, elements, materials) ==
    LET r == ElementEvents(name, elements, materials)
    IN  [err |-> r.err, ev |-> r.ev, out |-> Written(r.ev), log |-> Logged(r.ev)]

-----------------------------------------------------------------------------
(* The mesh files explored: four sections, each a keyword line, a count line *)
(* and data lines, put in some order, with at most one line edited.          *)

\* a line of text: the words separated by single blanks
Line(words) ==
    [i \in 1..(2 * Len(words) - 1) |-> IF i % 2 = 1 THEN words[(i + 1) \div 2] ELSE WS]

IntLine(ints) == Line(Ints(ints))

Keywords == <<"points", "surfaceelements", "materials", "edgesegmentsgi2">>

SeqsUpTo(set, n) == UNION {[1..k -> set] : k \in 0..n}

PointLineSet ==
    { IntLine(<<0, 0, 0>>),
      Line(<<I(1), F(1), F(-3)>>),
      Line(<<F(20), I(-2), F(7)>>) }

Elem6a == IntLine(<<1, 1, 1, 0, 6, 1, 2, 3, 4, 5, 6>>)
Elem6b == IntLine(<<2, 2, 1, 0, 6, 3, 2, 1, 9, 8, 7>>)
Elem3 == IntLine(<<3, 1, 1, 0, 3, 7, 2, 8>>)
Elem6c == IntLine(<<4, 3, 1, 0, 6, 6, 5, 4, 3, 2, 1>>)
Elem17 == IntLine(<<5, 2, 1, 0, 17>> \o [i \in 1..17 |-> 18 - i])

ElemLineSet == {Elem6a, Elem6b, Elem3, Elem6c, Elem17}

MatSteel == Line(<<I(1), S("steel")>>)
MatAlu == Line(<<I(2), S("alu")>>)
MatLineSet == {MatSteel, MatAlu}

Edge101a == IntLine(<<101, 1, 1, 2>>)
Edge101b == IntLine(<<101, 1, 3, 2>>)
Edge100 == IntLine(<<100, 1, 4, 5>>)
Edge102 == IntLine(<<102, 1, 5, 1, 9, 9>>)
EdgeLineSet == {Edge101a, Edge101b, Edge100, Edge102}

Canonical == <<1, 2, 3, 4>>
Perms == {p \in [1..4 -> 1..4] : \A i, j \in 1..4 : p[i] = p[j] => i = j}

NoEdit == [op |-> "none", at |-> 0, line |-> <<>>]

DefaultGen ==
    [data |-> << <<IntLine(<<0, 0, 0>>), Line(<<I(1), F(1), F(-3)>>)>>,
                 <<Elem6a, Elem3>>,
                 <<MatSteel, MatAlu>>,
                 <<Edge101a, Edge100>> >>,
     perm |-> Canonical,
     edit |-> NoEdit]

\* lines that take the place of a line of the default file
BadLines ==
    { <<>>, <<WS>>, <<S("x")>>, <<F(12)>>, <<I(-1)>>, <<I(-3)>>, <<I(0)>>, <<I(1)>>,
      <<I(5)>>,
      IntLine(<<2, 2>>), IntLine(<<1, 1, 1, 1>>),
      IntLine(<<1, 1, 0, 0, 6, 1, 2, 3, 4, 5>>),
      IntLine(<<1, 1, 0, 0, 3, 1, 2, 3, 4>>),
      IntLine(<<1, 1, 0, 0, 3, 1, 2>>),
      IntLine(<<1, 1, 0, 0, -1, 1, 2>>),
      IntLine(<<1, 1, 0, 0, -6, 1, 2, 3>>),
      IntLine(<<1, 1, 0, 0, -9, 1, 2, 3>>),
      IntLine(<<1, 1, 0>>),
      Line(<<I(1), S("steel"), S("x")>>),
      IntLine(<<101, 1, 2>>), IntLine(<<5, 1, 2>>),
      Line(<<I(101), I(1), S("a"), I(2)>>) }

\* lines put between two lines of the default file
InsertLines ==
    { <<Hash("#c")>>, <<WS, Hash("#"), WS, S("note")>>, <<>>, <<WS>>,
      <<WS, S("points"), WS>> }
    \cup {<<S(Keywords[i])>> : i \in 1..4}

\* the file: the sections in the order perm, before any edit
Assemble(data, perm) ==
    Flatten([i \in 1..4 |->
        << <<S(Keywords[perm[i]])>>, <<I(Len(data[perm[i]]))>> >> \o data[perm[i]]])

ApplyEdit(file, edit) ==
    IF edit.op = "insert"
    THEN SubSeq(file, 1, edit.at - 1) \o <<edit.line>> \o SubSeq(file, edit.at, Len(file))
    ELSE IF edit.op = "replace"
    THEN [file EXCEPT ![edit.at] = edit.line]
    ELSE IF edit.op = "delete"
    THEN SubSeq(file, 1, edit.at - 1) \o SubSeq(file, edit.at + 1, Len(file))
    ELSE file

Build(g) == ApplyEdit(Assemble(g.data, g.perm), g.edit)

DefaultLen == Len(Assemble(DefaultGen.data, Canonical))

\* files that differ from the default file in the data of one section
DataGens ==
    {[DefaultGen EXCEPT !.data[1] = p] : p \in SeqsUpTo(PointLineSet, MaxPoints)}
    \cup {[DefaultGen EXCEPT !.data[2] = e] : e \in SeqsUpTo(ElemLineSet, MaxElems)}
    \cup {[DefaultGen EXCEPT !.data[3] = m] : m \in SeqsUpTo(MatLineSet, MaxMats)}
    \cup {[DefaultGen EXCEPT !.data[4] = g] : g \in SeqsUpTo(EdgeLineSet, MaxEdges)}

\* the default sections in every order, alone or with a keyword line added at the end
OrderGens ==
    {[DefaultGen EXCEPT !.perm = p, !.edit = e] :
        p \in Perms,
        e \in {NoEdit} \cup {[op |-> "insert", at |-> DefaultLen + 1,
                              line |-> <<S(Keywords[i])>>] : i \in 1..4}}

\* the default file with one line replaced, deleted or inserted
EditGens ==
    {[DefaultGen EXCEPT !.edit = e] :
        e \in {[op |-> "replace", at |-> i, line |-> l] :
                  i \in 1..DefaultLen, l \in BadLines}
              \cup {[op |-> "delete", at |-> i, line |-> <<>>] : i \in 1..DefaultLen}
              \cup {[op |-> "insert", at |-> i, line |-> l] :
                      i \in 1..(DefaultLen + 1), l \in InsertLines}}

Gens == DataGens \cup OrderGens \cup EditGens

DefaultArgv == << <<"a", ".mesh">>, <<"n", ".inp">>, <<"e", ".inp">> >>
OtherArgvs ==
    { << <<"a", ".mesh">>, <<"n", ".inp">> >>,
      << <<"a", ".mesh">>, <<"n">>, <<"e", ".inp">> >>,
      << <<"a", ".mesh">>, <<"n", ".txt">>, <<"e">>, <<"more">> >> }

\* command lines that name one file twice: both decks, the mesh and the element
\* deck, the mesh and the node deck, all three
AliasedArgvs ==
    { << <<"a", ".mesh">>, <<"e">>, <<"e", ".inp">> >>,
      << <<"a", ".mesh">>, <<"x", ".inp">>, <<"x", ".inp">> >>,
      << <<"a", ".mesh">>, <<"n">>, <<"a", ".mesh">> >>,
      << <<"m", ".inp">>, <<"m">>, <<"e", ".inp">> >>,
      << <<"m", ".inp">>, <<"m", ".inp">>, <<"m", ".inp">> >> }

Argvs == {DefaultArgv} \cup OtherArgvs \cup AliasedArgvs

\* every file name a run can touch
FileNames ==
    UNION {{a[i] : i \in 1..Len(a)} \cup {NodeDeckName(a[2])} : a \in Argvs}

\* the disk when main starts: the mesh file, and no other file
NewDisk(a, g) == [n \in FileNames |-> IF n = a[1] THEN Build(g) ELSE <<>>]

\* the disk with the file name holding content
Store(d, name, content) == [d EXCEPT ![name] = content]

NoChunks == [err |-> "", groups |-> <<>>, called |-> FALSE]

-----------------------------------------------------------------------------
(* main, step by step *)

Init ==
    /\ \E g \in Gens, a \in Argvs :
          /\ a = DefaultArgv \/ g = DefaultGen
          /\ gen = g
          /\ mesh = Build(g)
          /\ argv = a
          /\ disk = NewDisk(a, g)
    /\ pc = "start"
    /\ exc = ""
    /\ open = {}
    /\ fileops = <<>>
    /\ lines = <<>>
    /\ tables = NoTables
    /\ logs = <<>>
    /\ cin = [sequence |-> <<>>, count |-> ChunkWidth]
    /\ cout = NoChunks

Info(words) == <<S("INFO:")>> \o words

\* lines 126-130
CheckArgs ==
    /\ pc = "start"
    /\ IF Len(argv) < 3
       THEN /\ logs' = Append(logs, <<S("ERROR: mesh2inp.py requires three file names")>>)
            /\ pc' = "exit1"
       ELSE /\ logs' = Append(logs, Info(<<S("reading mesh file")>>
                                           \o [i \in 1..Len(argv[1]) |-> S(argv[1][i])]))
            /\ pc' = "mesh_open"
    /\ UNCHANGED <<argv, gen, mesh, exc, open, fileops, lines, tables, disk, cin, cout>>

\* a with statement is entered: the file is opened, or open() raises
Enter(name) ==
    /\ open' = open \cup {name}
    /\ fileops' = Append(fileops, <<"open", name>>)

\* a line of which only some first bytes reached the disk: at least one byte,
\* at most its whole text, and no newline
CutMark == [k |-> "cut", v |-> 0, s |-> ""]
Cut(ln) == IF Len(ln) > 0 /\ ln[1] = CutMark THEN ln ELSE <<CutMark>> \o ln

\* the deck after a close() whose flush failed: a prefix of the bytes written
\* reached the disk, that is the first k lines and, when the prefix ends inside
\* the next line, that line cut short
FlushFailed(deck, k, cut) ==
    SubSeq(deck, 1, k) \o (IF cut THEN <<Cut(deck[k + 1])>> ELSE <<>>)

\* a variant of Leave that closes the file only when no exception is pending
Leave_OnSuccess(name) ==
    IF exc = ""
    THEN /\ open' = open \ {name}
         /\ fileops' = Append(fileops, <<"close", name>>)
    ELSE UNCHANGED <<open, fileops>>

\* a with statement is left, normally or by an exception: the file is closed
Leave(name) ==
    /\ open' = open \ {name}
    /\ fileops' = Append(fileops, <<"close", name>>)

\* line 22
OpenMesh ==
    /\ pc = "mesh_open"
    /\ \E ok \in BOOLEAN :
          IF ok
          THEN Enter(argv[1]) /\ pc' = "mesh_read" /\ exc' = exc
          ELSE pc' = "aborted" /\ exc' = "OSError" /\ UNCHANGED <<open, fileops>>
    /\ UNCHANGED <<argv, gen, mesh, lines, tables, disk, logs, cin, cout>>

\* line 23
ReadMesh ==
    /\ pc = "mesh_read"
    /\ \E ok \in BOOLEAN :
          IF ok
          THEN lines' = Stripped(disk[argv[1]]) /\ exc' = exc
          ELSE lines' = lines /\ exc' = "OSError"
    /\ pc' = "mesh_close"
    /\ UNCHANGED <<argv, gen, mesh, open, fileops, tables, disk, logs,
                   cin, cout>>

\* end of the with statement of line 22
CloseMesh ==
    /\ pc = "mesh_close"
    /\ Leave(argv[1])
    /\ pc' = IF exc = "" THEN "parse" ELSE "aborted"
    /\ UNCHANGED <<argv, gen, mesh, exc, lines, tables, disk, logs,
                   cin, cout>>

\* lines 25-51 and 131-135
ParseMesh ==
    /\ pc = "parse"
    /\ lines' = NoComments(lines)
    /\ LET r == read_mesh(NoComments(lines))
       IN  IF r.err # ""
           THEN /\ exc' = r.err
                /\ pc' = "aborted"
                /\ UNCHANGED <<tables, logs>>
           ELSE /\ tables' = r.t
                /\ logs' = logs \o
                     << Info(<<S("found"), I(Len(r.t.points)), S("points")>>),
                        Info(<<S("found"), I(Len(r.t.elements)), S("elements")>>),
                        Info(<<S("found"), I(Len(r.t.materials)), S("surface node sets")>>),
                        Info(<<S("found"), I(Len(r.t.edgeboundaries)), S("edge node sets")>>) >>
                /\ pc' = "nodes_open"
                /\ exc' = exc
    /\ UNCHANGED <<argv, gen, mesh, open, fileops, disk, cin, cout>>

\* the node deck and the element deck as they stand on disk
nodefile == IF Len(argv) >= 2 THEN disk[NodeDeckName(argv[2])] ELSE <<>>
efile == IF Len(argv) >= 3 THEN disk[argv[3]] ELSE <<>>

\* a with statement opens the file name for writing: open() empties the file,
\* or raises
OpenDeck(name, body) ==
    /\ \E ok \in BOOLEAN :
          IF ok
          THEN /\ Enter(name)
               /\ disk' = Store(disk, name, <<>>)
               /\ pc' = body
               /\ exc' = exc
          ELSE /\ pc' = "aborted"
               /\ exc' = "OSError"
               /\ UNCHANGED <<open, fileops, disk>>
    /\ UNCHANGED <<argv, gen, mesh, lines, tables, logs, cin, cout>>

\* the body of a with statement, r being what the writer does on a device that
\* takes every write: it runs to its end (a return, or the exception the data
\* raise), or write number k + 1 raises OSError with k lines written and, when
\* cut, part of line k + 1
WriteDeck(name, r, close) ==
    /\ \E k \in 0..Len(r.out) : \E cut \in (IF k < Len(r.out) THEN BOOLEAN ELSE {FALSE}) :
          IF k = Len(r.out)
          THEN /\ disk' = Store(disk, name, r.out)
               /\ logs' = logs \o r.log
               /\ exc' = r.err
          ELSE /\ disk' = Store(disk, name,
                                Written(BeforeWrite(r.ev, k))
                                \o (IF cut THEN <<Cut(r.out[k + 1])>> ELSE <<>>))
               /\ logs' = logs \o Logged(BeforeWrite(r.ev, k))
               /\ exc' = "OSError"
    /\ pc' = close
    /\ UNCHANGED <<argv, gen, mesh, open, fileops, lines, tables, cin, cout>>

\* the end of a with statement: close() flushes what was written, or raises
\* OSError (a full device, a file size limit) with all or only a prefix of the
\* bytes on disk, whether or not an exception is pending; the file is closed
\* either way
CloseDeck(name, after) ==
    /\ Leave(name)
    /\ \/ /\ UNCHANGED <<exc, disk>>
          /\ pc' = IF exc = "" THEN after ELSE "aborted"
       \/ \E k \in 0..Len(disk[name]) :
             \E cut \in (IF k < Len(disk[name]) THEN BOOLEAN ELSE {FALSE}) :
                /\ disk' = Store(disk, name, FlushFailed(disk[name], k, cut))
                /\ exc' = "OSError"
                /\ pc' = "aborted"
    /\ UNCHANGED <<argv, gen, mesh, lines, tables, logs, cin, cout>>

\* lines 64-66
OpenNodes ==
    /\ pc = "nodes_open"
    /\ OpenDeck(NodeDeckName(argv[2]), "nodes_write")

\* lines 67-88
WriteNodes ==
    /\ pc = "nodes_write"
    /\ WriteDeck(NodeDeckName(argv[2]),
                 write_nodes(NodeDeckName(argv[2]), tables.points, tables.elements,
                             tables.materials, tables.edgeboundaries),
                 "nodes_close")

\* end of the with statement of line 66
CloseNodes ==
    /\ pc = "nodes_close"
    /\ CloseDeck(NodeDeckName(argv[2]), "elems_open")

\* line 95
OpenElems ==
    /\ pc = "elems_open"
    /\ OpenDeck(argv[3], "elems_write")

\* lines 96-116
WriteElems ==
    /\ pc = "elems_write"
    /\ WriteDeck(argv[3], write_elements(argv[3], tables.elements, tables.materials),
                 "elems_close")

\* end of the with statement of line 95
CloseElems ==
    /\ pc = "elems_close"
    /\ CloseDeck(argv[3], "done")

Next ==
    \/ CheckArgs
    \/ OpenMesh
    \/ ReadMesh
    \/ CloseMesh
    \/ ParseMesh
    \/ OpenNodes
    \/ WriteNodes
    \/ CloseNodes
    \/ OpenElems
    \/ WriteElems
    \/ CloseElems

Spec == Init /\ [][Next]_vars

-----------------------------------------------------------------------------
(* chunks on its own: lists of every length up to MaxChunkLen *)

ChunkInputs ==
    {[sequence |-> [i \in 1..n |-> IF up THEN i ELSE 100 - i], count |-> c] :
        n \in 0..MaxChunkLen, up \in BOOLEAN, c \in {0, 5, ChunkWidth}}

InitChunks ==
    /\ gen = DefaultGen
    /\ mesh = Build(DefaultGen)
    /\ argv = DefaultArgv
    /\ pc = "start"
    /\ exc = ""
    /\ open = {}
    /\ fileops = <<>>
    /\ lines = <<>>
    /\ tables = NoTables
    /\ disk = NewDisk(DefaultArgv, DefaultGen)
    /\ logs = <<>>
    /\ cin \in ChunkInputs
    /\ cout = NoChunks

CallChunks ==
    /\ ~cout.called
    /\ LET r == chunks(cin.sequence, cin.count)
       IN  cout' = [err |-> r.err, groups |-> r.groups, called |-> TRUE]
    /\ UNCHANGED <<argv, gen, mesh, pc, exc, open, fileops, lines, tables, disk, logs, cin>>

NextChunks == CallChunks

SpecChunks == InitChunks /\ [][NextChunks]_vars

-----------------------------------------------------------------------------
(* Reading the decks back, and the input as read_mesh sees it *)

StarLabels == {"*NODE,NSET=Nall", "*NSET,NSET=N", "*NSET,NSET=Nedge",
               "*ELEMENT, TYPE=S6, ELSET=Eall", "*ELSET,ELSET=E"}

IsStar(ln) == Len(ln) > 0 /\ ln[1].k = "str" /\ ln[1].s \in StarLabels

\* the positions, in order, of the lines of a deck that open a block labelled label
StarIdx(file, label) ==
    SelectSeq([i \in 1..Len(file) |-> i], LAMBDA i : IsStar(file[i]) /\ file[i][1].s = label)

\* the lines of the block opened at line i: up to the next block or the end
BlockLines(file, i) ==
    LET later == {j \in (i + 1)..Len(file) : IsStar(file[j])}
        stop == IF later = {} THEN Len(file) + 1
                ELSE CHOOSE j \in later : \A k \in later : j <= k
    IN  SubSeq(file, i + 1, stop - 1)

\* the integers of a line, in order
LineInts(ln) ==
    LET ts == SelectSeq(ln, LAMBDA x : x.k = "int")
    IN  [i \in 1..Len(ts) |-> ts[i].v]

\* the integers listed in the block opened at line i, in order
BlockIds(file, i) ==
    LET bl == BlockLines(file, i)
    IN  Flatten([j \in 1..Len(bl) |-> LineInts(bl[j])])

Elems(seq) == {seq[i] : i \in 1..Len(seq)}

StrictlyAscending(seq) == \A i \in 1..(Len(seq) - 1) : seq[i] < seq[i + 1]

InputLines == NoComments(Stripped(mesh))

ParsedPcs == {"nodes_open", "nodes_write", "nodes_close", "elems_open",
              "elems_write", "elems_close", "done"}

\* the two decks are one file: write_elements overwrites what write_nodes wrote
SameDeck == Len(argv) >= 3 /\ NodeDeckName(argv[2]) = argv[3]

\* write_nodes has returned normally and the node deck is as it left it: at the
\* end of its with statement, after it and, when the element deck is another
\* file, for the rest of the run
NodesWritten ==
    \/ pc = "nodes_close" /\ exc = ""
    \/ pc = "elems_open"
    \/ pc \in {"elems_write", "elems_close", "done"} /\ ~SameDeck

\* write_elements has returned normally
ElemsWritten == pc = "done" \/ (pc = "elems_close" /\ exc = "")

-----------------------------------------------------------------------------
(* C1 *)

\* the node ids of the elements of material id, as the data model words it:
\* the node_count ids that follow field 4
ExpectedNodes(id) ==
    UNION {LET e == tables.elements[i]
           IN  {e[5 + k] : k \in {n \in 1..e[5] : 5 + n <= Len(e)}} :
           i \in {n \in 1..Len(tables.elements) : tables.elements[n][2] = id}}

\* C1 as stated: once write_nodes has returned, the node deck holds one set
\* N<name> per material, in the order of the materials table; each lists exactly
\* the node_count ids that follow field 4 of the elements of that material (none
\* for a material without elements), without duplicates, ascending.
C1_Original ==
    NodesWritten =>
        LET at == StarIdx(nodefile, "*NSET,NSET=N")
        IN  /\ Len(at) = Len(tables.materials)
            /\ \A j \in 1..Len(at) :
                  /\ nodefile[at[j]] = <<S("*NSET,NSET=N"), tables.materials[j].name>>
                  /\ StrictlyAscending(BlockIds(nodefile, at[j]))
                  /\ Elems(BlockIds(nodefile, at[j])) = ExpectedNodes(tables.materials[j].id)

\* how many of the fields that follow field 4 of element e go into a node set:
\* node_count of them, or all when there are fewer, for a node_count of 0 or
\* more; none for a node_count from -5 to -1; all but the last -node_count - 5
\* for a node_count of -6 or less
NodesTaken(e) ==
    LET c == e[5]
        n == Len(e) - 5
    IN  IF c >= 0 THEN Min(c, n)
        ELSE IF c >= -5 THEN 0
        ELSE Max(0, n + 5 + c)

\* the node ids the elements of material id put into its set
TakenNodes(id) ==
    UNION {{tables.elements[i][5 + k] : k \in 1..NodesTaken(tables.elements[i])} :
           i \in {n \in 1..Len(tables.elements) : tables.elements[n][2] = id}}

\* C1 as amended: once write_nodes has returned, the node deck holds one set
\* N<name> per material, in the order of the materials table; each lists,
\* without duplicates and ascending, exactly the ids its elements contribute:
\* the first node_count fields after field 4 (all of them when fewer are
\* present) of an element with node_count >= 0, nothing of an element with
\* node_count from -5 to -1, and all the fields after field 4 but the last
\* -node_count - 5 of an element with node_count <= -6; a material without
\* elements has an empty set.
C1_MaterialNodeSets ==
    NodesWritten =>
        LET at == StarIdx(nodefile, "*NSET,NSET=N")
        IN  /\ Len(at) = Len(tables.materials)
            /\ \A j \in 1..Len(at) :
                  /\ nodefile[at[j]] = <<S("*NSET,NSET=N"), tables.materials[j].name>>
                  /\ StrictlyAscending(BlockIds(nodefile, at[j]))
                  /\ Elems(BlockIds(nodefile, at[j])) = TakenNodes(tables.materials[j].id)

\* an element of material 1 with node count -6 and three fields after it gives
\* its first two to the set of material 1, next to the three nodes of the
\* 3-node element
C1_Witness ==
    /\ NodesWritten
    /\ Len(tables.elements) = 2
    /\ tables.elements[1][5] = -6
    /\ Len(tables.elements[1]) = 8
    /\ tables.elements[2][5] = 3
    /\ TakenNodes(1) = {1, 2, 7, 8}
    /\ ExpectedNodes(1) = {2, 7, 8}
    /\ Elems(BlockIds(nodefile, StarIdx(nodefile, "*NSET,NSET=N")[1])) = {1, 2, 7, 8}

-----------------------------------------------------------------------------
(* C2 *)

EdgeRows == Section(InputLines, "edgesegmentsgi2").rows

EdgeTags == {split(EdgeRows[i])[1].v : i \in 1..Len(EdgeRows)}

\* the two trailing node references of the edge records that carry tag t
ExpectedEdgeNodes(t) ==
    UNION {{split(EdgeRows[i])[3].v, split(EdgeRows[i])[4].v} :
           i \in {n \in 1..Len(EdgeRows) : split(EdgeRows[n])[1].v = t}}

\* C2: once write_nodes has returned, every edge tag above 100 of the input has
\* exactly one set Nedge<tag> in the node deck, holding exactly the node_a and
\* node_b of the edge records with that tag; a tag of 100 or less has no entry
\* in the table and no set in the deck.
C2_EdgeNodeSets ==
    NodesWritten =>
        LET at == StarIdx(nodefile, "*NSET,NSET=Nedge")
        IN  /\ \A t \in EdgeTags :
                  IF t > 100
                  THEN /\ Cardinality({j \in 1..Len(at) : nodefile[at[j]][2] = I(t)}) = 1
                       /\ \A j \in 1..Len(at) :
                             nodefile[at[j]][2] = I(t) =>
                                Elems(BlockIds(nodefile, at[j])) = ExpectedEdgeNodes(t)
                       /\ \E j \in 1..Len(tables.edgeboundaries) :
                             /\ tables.edgeboundaries[j].key = t
                             /\ tables.edgeboundaries[j].nodes = ExpectedEdgeNodes(t)
                  ELSE /\ \A j \in 1..Len(at) : nodefile[at[j]][2] # I(t)
                       /\ \A j \in 1..Len(tables.edgeboundaries) :
                             tables.edgeboundaries[j].key # t
            /\ \A j \in 1..Len(at) : nodefile[at[j]][2].v \in EdgeTags

\* two records with tag 101 and one with tag 100
C2_Witness ==
    /\ NodesWritten
    /\ Len(EdgeRows) = 3
    /\ Cardinality({i \in 1..3 : split(EdgeRows[i])[1].v = 101}) = 2
    /\ 100 \in EdgeTags
    /\ ExpectedEdgeNodes(101) = {1, 2, 3}

-----------------------------------------------------------------------------
(* C3 *)

\* the numbers of the elements whose node count is 6, ascending
SixNodeNumbers ==
    SelectSeq([i \in 1..Len(tables.elements) |-> i],
              LAMBDA n : tables.elements[n][5] = 6)

\* C3: once write_elements has returned, the *ELEMENT block holds exactly one
\* record per element of node count 6, in file order: the element's 1-based
\* position among all elements, then its nodes (a,b,c,d,e,f) as a,b,c,f,d,e.
\* Elements of another node count are absent from the block.  While
\* write_elements is left by an IndexError, some element record is short: an
\* element of another node count with its five leading fields raises nothing.
C3_ElementBlock ==
    /\ ElemsWritten =>
          LET at == StarIdx(efile, "*ELEMENT, TYPE=S6, ELSET=Eall")
              recs == BlockLines(efile, at[1])
          IN  /\ Len(at) = 1
              /\ Len(recs) = Len(SixNodeNumbers)
              /\ \A r \in 1..Len(recs) :
                    LET n == SixNodeNumbers[r]
                        e == tables.elements[n]
                    IN  recs[r] = Ints(<<n, e[6], e[7], e[8], e[11], e[9], e[10]>>)
    /\ (pc = "elems_close" /\ exc = "IndexError") =>
          \E i \in 1..Len(tables.elements) :
             \/ Len(tables.elements[i]) < 5
             \/ tables.elements[i][5] = 6 /\ Len(tables.elements[i]) < 11

\* a 3-node element first, a 6-node element second: the record carries number 2
C3_Witness ==
    /\ ElemsWritten
    /\ Len(tables.elements) = 2
    /\ tables.elements[1][5] = 3
    /\ tables.elements[2] = <<2, 2, 1, 0, 6, 3, 2, 1, 9, 8, 7>>
    /\ BlockLines(efile, StarIdx(efile, "*ELEMENT, TYPE=S6, ELSET=Eall")[1])
          = << Ints(<<2, 3, 2, 1, 7, 9, 8>>) >>

-----------------------------------------------------------------------------
(* C4 *)

\* C4: once write_elements has returned, the element deck holds one set E<name>
\* per material, in the order of the materials table, and each lists, ascending,
\* exactly the 1-based file-order numbers of the elements whose material id is
\* that material's, whatever their node count; an element whose material id no
\* material carries is in no set.
C4_ElementSets ==
    ElemsWritten =>
        LET at == StarIdx(efile, "*ELSET,ELSET=E")
        IN  /\ Len(at) = Len(tables.materials)
            /\ \A j \in 1..Len(at) :
                  /\ efile[at[j]] = <<S("*ELSET,ELSET=E"), tables.materials[j].name>>
                  /\ StrictlyAscending(BlockIds(efile, at[j]))
                  /\ Elems(BlockIds(efile, at[j])) =
                        {n \in 1..Len(tables.elements) :
                            tables.elements[n][2] = tables.materials[j].id}
            /\ \A n \in 1..Len(tables.elements) :
                  (\A j \in 1..Len(tables.materials) :
                      tables.materials[j].id # tables.elements[n][2])
                  => \A j \in 1..Len(at) : n \notin Elems(BlockIds(efile, at[j]))

\* a 3-node element of material 1, which the *ELEMENT block skips, and an
\* element of material 3, which the table does not hold
C4_Witness ==
    /\ ElemsWritten
    /\ Len(tables.materials) = 2
    /\ Len(tables.elements) = 2
    /\ tables.elements[1][2] = 1 /\ tables.elements[1][5] = 3
    /\ tables.elements[2][2] = 3
    /\ BlockIds(efile, StarIdx(efile, "*ELSET,ELSET=E")[1]) = <<1>>
    /\ BlockLines(efile, StarIdx(efile, "*ELEMENT, TYPE=S6, ELSET=Eall")[1])
          = << Ints(<<2, 6, 5, 4, 1, 3, 2>>) >>

-----------------------------------------------------------------------------
(* C5 *)

PointRows == Section(InputLines, "points").rows

\* a printed value h (hundredths) is the float e (eighths) to two decimals
TwoDecimalsOf(h, e) == 25 * e - 2 * h \in -1..1

\* C5: once write_nodes has returned, the *NODE block holds as many records as
\* read_mesh parsed points, which is the number of point lines of the input, and
\* record i is numbered i and carries, to two decimals, the three coordinates of
\* the i-th point line of the input.
C5_NodeRecords ==
    NodesWritten =>
        LET at == StarIdx(nodefile, "*NODE,NSET=Nall")
            recs == BlockLines(nodefile, at[1])
        IN  /\ Len(at) = 1
            /\ Len(recs) = Len(tables.points)
            /\ Len(recs) = Len(PointRows)
            /\ \A i \in 1..Len(recs) :
                  /\ Len(recs[i]) = 4
                  /\ recs[i][1] = I(i)
                  /\ \A c \in 1..3 :
                        /\ recs[i][c + 1].k = "dec"
                        /\ TwoDecimalsOf(recs[i][c + 1].v, FloatOf(split(PointRows[i])[c]))

\* three points, the third unlike the first
C5_Witness ==
    /\ NodesWritten
    /\ Len(tables.points) = 3
    /\ tables.points[1] = <<8, 1, -3>>
    /\ tables.points[3] = <<20, -16, 7>>
    /\ BlockLines(nodefile, StarIdx(nodefile, "*NODE,NSET=Nall")[1])[3]
          = <<I(3), D(250), D(-200), D(88)>>

-----------------------------------------------------------------------------
(* C6 *)

\* C6: chunks of width 16 over a list of length L yields ceil(L/16) groups (none
\* for L = 0); each but the last has 16 items, the last has 1 to 16; the groups
\* put end to end are the list.
C6_Chunking ==
    (cout.called /\ cin.count = 16) =>
        LET L == Len(cin.sequence)
            g == cout.groups
        IN  /\ cout.err = ""
            /\ Len(g) = (L + 15) \div 16
            /\ \A j \in 1..(Len(g) - 1) : Len(g[j]) = 16
            /\ Len(g) > 0 => Len(g[Len(g)]) \in 1..16
            /\ Flatten(g) = cin.sequence

\* a list of 33 items: two full groups and a last group of one
C6_Witness ==
    /\ cout.called /\ cin.count = 16
    /\ Len(cin.sequence) = 33
    /\ Len(cout.groups) = 3
    /\ cout.groups[3] = <<67>>

-----------------------------------------------------------------------------
(* C7 *)

KeywordSet == {Keywords[i] : i \in 1..4}

MissingKeyword(ls) == \E kw \in KeywordSet : Index(ls, <<S(kw)>>) = -1

\* the line after a keyword is missing or is not an integer
BadCount(ls) ==
    \E kw \in KeywordSet :
        LET idx == Index(ls, <<S(kw)>>)
        IN  /\ idx # -1
            /\ (idx + 1 >= Len(ls) \/ ~IntOk(At(ls, idx + 1)))

\* the data lines of a section whose keyword and count are in order
Rows(ls, kw) == Section(ls, kw).rows

Located(ls) == ~MissingKeyword(ls) /\ ~BadCount(ls)

\* an element line with exactly 5 + node_count fields
ElementLineExact(ln) ==
    LET e == split(ln)
    IN  Len(e) >= 5 /\ e[5].k = "int" /\ Len(e) = 5 + e[5].v

\* a data line with the wrong token count, as the error taxonomy lists them
WrongTokenCount(ls) ==
    \/ \E i \in 1..Len(Rows(ls, "points")) : Len(split(Rows(ls, "points")[i])) # 3
    \/ \E i \in 1..Len(Rows(ls, "surfaceelements")) :
          ~ElementLineExact(Rows(ls, "surfaceelements")[i])
    \/ \E i \in 1..Len(Rows(ls, "materials")) : Len(split(Rows(ls, "materials")[i])) < 2
    \/ \E i \in 1..Len(Rows(ls, "edgesegmentsgi2")) :
          Len(split(Rows(ls, "edgesegmentsgi2")[i])) < 4

Malformed(ls) == MissingKeyword(ls) \/ BadCount(ls) \/ WrongTokenCount(ls)

\* C7 as claimed: a malformed mesh never lets the run complete normally.
C7_Original == Malformed(InputLines) => pc # "done"

\* an element line too short for the code to go through it
ElementLineShort(ln) ==
    LET e == split(ln)
    IN  Len(e) < 5 \/ (e[5] = I(6) /\ Len(e) < 11)

\* an edge line too short for the code to go through it
EdgeLineShort(ln) ==
    LET e == split(ln)
    IN  Len(e) = 0 \/ (e[1].k = "int" /\ e[1].v > 100 /\ Len(e) < 4)

\* the malformed meshes that stop the run
FatalMalformed(ls) ==
    \/ MissingKeyword(ls)
    \/ BadCount(ls)
    \/ \E i \in 1..Len(Rows(ls, "points")) : Len(split(Rows(ls, "points")[i])) # 3
    \/ \E i \in 1..Len(Rows(ls, "surfaceelements")) :
          ElementLineShort(Rows(ls, "surfaceelements")[i])
    \/ \E i \in 1..Len(Rows(ls, "materials")) : Len(split(Rows(ls, "materials")[i])) < 2
    \/ \E i \in 1..Len(Rows(ls, "edgesegmentsgi2")) :
          EdgeLineShort(Rows(ls, "edgesegmentsgi2")[i])

\* C7 as amended: a mesh that lacks a section keyword, has a count line that is
\* not an integer, a point line without exactly 3 values, an element line with
\* fewer than 5 fields or with node count 6 and fewer than 11 fields, a material
\* line with fewer than 2 tokens, an edge line with no token or with a tag above
\* 100 and fewer than 4 tokens, never lets the run complete normally; and an
\* exception, once raised, is only ever carried out of main: it is pending while
\* the open file is being closed or the run has aborted.
C7_MalformedFatal ==
    /\ pc = "done" => ~FatalMalformed(InputLines)
    /\ exc # "" => pc \in {"aborted", "mesh_close", "nodes_close", "elems_close"}
    /\ pc \in ParsedPcs => Located(InputLines)

\* a run stopped inside write_elements by an element of node count 6 with five nodes
C7_Witness ==
    /\ pc = "aborted"
    /\ exc = "IndexError"
    /\ Located(InputLines)
    /\ \E i \in 1..Len(Rows(InputLines, "surfaceelements")) :
          ElementLineShort(Rows(InputLines, "surfaceelements")[i])
    /\ Len(efile) > 0

-----------------------------------------------------------------------------
(* C8 *)

\* the file before its edit, and what read_mesh makes of it
Unedited == Assemble(gen.data, gen.perm)
UneditedRead == read_mesh(NoComments(Stripped(Unedited)))

IsComment(raw) == startswithHash(strip(raw))
IsBlank(raw) == strip(raw) = <<>>

\* read_mesh went through the file as it did through the file without the
\* inserted line: no exception of its own, and the same four tables
SameAsUnedited ==
    /\ pc = "aborted" => exc = "OSError"
    /\ pc \in ParsedPcs => tables = UneditedRead.t

\* C8 as claimed: a line that is empty after trimming or starts with '#', put
\* anywhere into a mesh that reads well (between a keyword and its count, among
\* the data lines), changes nothing of what read_mesh returns.
C8_Original ==
    (gen.edit.op = "insert" /\ (IsComment(gen.edit.line) \/ IsBlank(gen.edit.line))
     /\ UneditedRead.err = "") => SameAsUnedited

\* C8 as amended: read_mesh works on the trimmed lines that do not start with
\* '#': a line that starts with '#' once trimmed, put anywhere into a mesh that
\* reads well (between a keyword and its count, among the data lines),
\* changes nothing of what read_mesh returns.  Lines that are empty once trimmed
\* are kept: the lines read_mesh works on are as many as the lines of the file
\* that are not comments, each trimmed.
C8_CommentsDropped ==
    /\ (gen.edit.op = "insert" /\ IsComment(gen.edit.line) /\ UneditedRead.err = "")
          => SameAsUnedited
    /\ pc \in ParsedPcs =>
          /\ \A i \in 1..Len(lines) : ~startswithHash(lines[i]) /\ strip(lines[i]) = lines[i]
          /\ Len(lines) = Cardinality({i \in 1..Len(mesh) : ~IsComment(mesh[i])})
          /\ Cardinality({i \in 1..Len(lines) : lines[i] = <<>>})
                = Cardinality({i \in 1..Len(mesh) : IsBlank(mesh[i])})

\* an indented comment between the keyword points and its count, run completed
C8_Witness ==
    /\ pc = "done"
    /\ gen.edit.op = "insert"
    /\ gen.edit.at = 2
    /\ gen.edit.line = <<WS, Hash("#"), WS, S("note")>>
    /\ Len(tables.points) = 2

-----------------------------------------------------------------------------
(* C9 *)

CanonicalRead == read_mesh(NoComments(Stripped(Assemble(gen.data, Canonical))))

\* some keyword line occurs more than once in the file
KeywordTwice ==
    \E kw \in KeywordSet :
        Cardinality({i \in 1..Len(InputLines) : InputLines[i] = <<S(kw)>>}) > 1

\* C9 as claimed: a mesh whose sections are not in the order points,
\* surfaceelements, materials, edgesegmentsgi2, or that holds a keyword line
\* twice, does not yield the tables of the correctly ordered file.
C9_Original ==
    (pc \in ParsedPcs /\ (gen.perm # Canonical \/ KeywordTwice))
        => tables # CanonicalRead.t

\* the sections in some order, each count the number of its data lines, alone
\* or followed by one more keyword line
OrderedInput ==
    \/ gen.edit = NoEdit
    \/ /\ gen.edit.op = "insert"
       /\ gen.edit.at = Len(Unedited) + 1
       /\ \E kw \in KeywordSet : gen.edit.line = <<S(kw)>>

\* C9 as amended: read_mesh finds each section by the first line equal to its
\* keyword, wherever it stands.  A mesh whose four sections, each with a count
\* equal to the number of its data lines, stand in any order yields the four
\* tables of the correctly ordered file, and so does that mesh followed by a
\* second occurrence of a keyword line.
C9_AnyOrder ==
    OrderedInput =>
        /\ pc = "aborted" => exc = "OSError"
        /\ pc \in ParsedPcs => tables = CanonicalRead.t /\ CanonicalRead.err = ""

\* the sections in reverse order and a second points line at the end
C9_Witness ==
    /\ pc = "done"
    /\ gen.perm = <<4, 3, 2, 1>>
    /\ gen.edit.op = "insert"
    /\ gen.edit.line = <<S("points")>>
    /\ mesh[1] = <<S("edgesegmentsgi2")>>
    /\ Len(tables.points) = 2
    /\ Len(tables.edgeboundaries) = 1

-----------------------------------------------------------------------------
(* C10 *)

\* the file operations of a run that completes
AllFileOps ==
    << <<"open", argv[1]>>, <<"close", argv[1]>>,
       <<"open", NodeDeckName(argv[2])>>, <<"close", NodeDeckName(argv[2])>>,
       <<"open", argv[3]>>, <<"close", argv[3]>> >>

IsPrefix(s, u) == Len(s) <= Len(u) /\ SubSeq(u, 1, Len(s)) = s

\* C10: the file operations of a run are a prefix of: open mesh, close mesh,
\* open node deck, close node deck, open element deck, close element deck, so a
\* file is closed before the next is opened and no two are open at once; when
\* the run has ended, normally or not, every file opened has been closed, and a
\* run that aborted opened no file after the one it failed in; the node deck is
\* opened only with the mesh read in full, the element deck only with the node
\* deck written in full; a run with fewer than three arguments touches no file.
C10_FilesInSequence ==
    /\ Len(argv) >= 3 => IsPrefix(fileops, AllFileOps)
    /\ Len(argv) < 3 => fileops = <<>>
    /\ Cardinality(open) <= 1
    /\ open = IF Len(fileops) % 2 = 1 THEN {fileops[Len(fileops)][2]} ELSE {}
    /\ pc \in {"done", "aborted", "exit1"} => open = {}
    /\ pc = "done" => fileops = AllFileOps /\ exc = ""
    /\ pc = "aborted" => exc # ""
    /\ Len(fileops) >= 3 =>
          /\ lines = InputLines
          /\ tables = read_mesh(InputLines).t
    /\ (pc = "elems_open" \/ (Len(fileops) >= 5 /\ ~SameDeck)) =>
          nodefile = write_nodes(NodeDeckName(argv[2]), tables.points, tables.elements,
                                 tables.materials, tables.edgeboundaries).out

\* a run that aborted part-way through writing the node deck: the deck was
\* closed and the element deck never opened
C10_Witness ==
    /\ pc = "aborted"
    /\ exc = "ValueError"
    /\ Len(fileops) = 4
    /\ fileops[4] = <<"close", <<"n", ".inp">> >>
    /\ Len(nodefile) > 5
    /\ open = {}

=============================================================================
